---- MODULE Spec2Model ----
(***************************************************************************)
(* Adaptive Thermostat: the hysteresis controller (climate.py), the poll   *)
(* coordinator with its price listener (__init__.py) and the price shift   *)
(* function (const.py), as one state machine on the asyncio event loop.    *)
(*                                                                         *)
(* Temperatures are integers in hundredths of a degree Celsius (20.0 degC  *)
(* is 2000).  An optional float (Python None or a float) is a sequence of  *)
(* length 0 or 1.  The event loop is single-threaded: a coroutine runs     *)
(* atomically from one await that really suspends to the next, so every    *)
(* action below is one such stretch of code.                               *)
(*                                                                         *)
(* Spec is the coordinator and the entity of one config entry, from        *)
(* async_setup_entry to async_unload_entry.  ReliableSpec is Spec with a   *)
(* real thermostat that accepts every command.  FairSpec is the loaded     *)
(* integration with a timer that keeps ticking.  FlowSpec is the config    *)
(* flow and the options flow (config_flow.py).  ShiftSpec applies the      *)
(* shift functions to arguments of their own.                              *)
(***************************************************************************)
EXTENDS Integers, Sequences, FiniteSets, Bags

VARIABLES
    hvac_mode,                  \* AdaptiveThermostat._hvac_mode
    target_temperature,         \* AdaptiveThermostat._target_temperature
    is_heating,                 \* AdaptiveThermostat._is_heating
    data,                       \* coordinator.data
    price_sensor_id,            \* entry.data.get(CONF_PRICE_SENSOR) is set
    price_sensor_state,         \* the state of the price sensor in hass.states
    price_listener_unsubscribe, \* the price subscription exists
    entity_added,               \* the entity listens to the coordinator
    setup,                      \* position of async_setup_entry
    unload,                     \* position of async_unload_entry
    refresh_requested,          \* an async_request_refresh task is pending
    pending_tasks,              \* created _async_control_heating tasks not yet run,
                                \* counted by the trigger of their refresh
    service_calls,              \* actuator calls awaited (a bag)
    cmds_since_change,          \* history: commands since is_heating last changed
    ever_evaluated,             \* history: _async_control_heating has run
    step,                       \* history: what the last step did
    config_entry,               \* config_flow.py: the config entry's data, if created
    basic_config,               \* AdaptiveThermostatConfigFlow._basic_config
    errors,                     \* the errors of the form shown last
    shift_in,                   \* the arguments a shift function was applied to
    shift_out                   \* the value it returned

\* the variables of the config and options flows
flow_vars == <<config_entry, basic_config, errors>>

\* the variables of the applications of the shift functions
shift_vars == <<shift_in, shift_out>>

\* the variables of the coordinator and the entity
runtime_vars == <<hvac_mode, target_temperature, is_heating, data, price_sensor_id,
          price_sensor_state,
          price_listener_unsubscribe, entity_added, setup, unload,
          refresh_requested, pending_tasks, service_calls, cmds_since_change,
          ever_evaluated, step>>

vars == <<runtime_vars, flow_vars, shift_vars>>

----------------------------------------------------------------------------
(* Bounds of the model *)

\* coroutines of the entity alive at once: evaluation tasks created and not
\* yet run, and coroutines awaiting their actuator call
MaxCoroutines == 2

(* Program constants, in hundredths of a degree *)

DEFAULT_TOLERANCE == 50
DEFAULT_BASE_SHIFT == 0
DEFAULT_HIGH_SETPOINT == 3500
DEFAULT_LOW_SETPOINT == 500
DEFAULT_MAX_PRICE_SHIFT == 300
\* steepness 1.5, in tenths
DEFAULT_PRICE_STEEPNESS == 15
DefaultTarget == 2000
\* the limits the entity declares for its target (_attr_min_temp, _attr_max_temp)
attr_min_temp == 500
attr_max_temp == 3500

None == << >>
Some(v) == <<v>>

HEAT == "heat"
OFF == "off"
\* a mode the entity does not support (not in _attr_hvac_modes)
COOL == "cool"
attr_hvac_modes == {OFF, HEAT}

----------------------------------------------------------------------------
(* Sensor states as hass.states.get returns them: no state object, a state *)
(* whose text is not a number, or a number.                                *)

NoState == [exists |-> FALSE, numeric |-> FALSE, value |-> 0]
Unavailable == [exists |-> TRUE, numeric |-> FALSE, value |-> 0]
Numeric(v) == [exists |-> TRUE, numeric |-> TRUE, value |-> v]

\* with target 2000 and no shift 1950 is the lower threshold; with target 2200
\* and the shift of a price of +49 % (-188) 2062 is the upper threshold
TempStates == {NoState, Unavailable, Numeric(1930), Numeric(1950), Numeric(2062)}
PriceStates == {NoState, Unavailable, Numeric(49)}
\* the temperatures a set-target command is given: 4000 is above attr_max_temp
Targets == {2000, 2200, 4000}

\* float(state.state): a ValueError for a text that is no number
Float(state) == IF state.numeric THEN Some(state.value) ELSE None

----------------------------------------------------------------------------
(* const.py: price_based_shift_percent.  tanh in fixed point: its argument *)
(* and result are in 1/TanhScale.                                          *)

TanhScale == 10000
\* beyond this argument the continued fraction is not evaluated
TanhCutoff == 40000
\* from this argument on, math.tanh of a double is exactly 1.0
TanhSaturation == 190616

Abs(x) == IF x < 0 THEN -x ELSE x
Sign(x) == IF x < 0 THEN -1 ELSE IF x > 0 THEN 1 ELSE 0
\* a \div b rounded to the nearest integer, half away from zero; b > 0
RoundDiv(a, b) == Sign(a) * ((2 * Abs(a) + b) \div (2 * b))

\* Lambert's continued fraction x / (1 + x^2 / (3 + x^2 / (5 + ...))), for x >= 0
TanhFraction(x) ==
    LET q == (x * x) \div TanhScale
        d6 == 13 * TanhScale
        d5 == 11 * TanhScale + (q * TanhScale) \div d6
        d4 == 9 * TanhScale + (q * TanhScale) \div d5
        d3 == 7 * TanhScale + (q * TanhScale) \div d4
        d2 == 5 * TanhScale + (q * TanhScale) \div d3
        d1 == 3 * TanhScale + (q * TanhScale) \div d2
        d0 == TanhScale + (q * TanhScale) \div d1
    IN  (x * TanhScale) \div d0

Tanh(x) ==
    LET a == Abs(x)
        t == IF a >= TanhSaturation THEN TanhScale
             ELSE IF a > TanhCutoff THEN TanhScale - 1
             ELSE TanhFraction(a)
    IN  Sign(x) * t

\* a variant without the minus sign
price_based_shift_unsigned(price_diff_percent, max_shift, steepness) ==
    LET x == steepness * price_diff_percent * (TanhScale \div 1000)
    IN  max_shift * Tanh(x)

\* p = price_diff_percent / 100.0; return -max_shift * math.tanh(steepness * p)
\* The percentage is an integer, the steepness is in tenths, and the result
\* is in 1/TanhScale of the unit of max_shift.
price_based_shift_percent(price_diff_percent, max_shift, steepness) ==
    LET x == steepness * price_diff_percent * (TanhScale \div 1000)
    IN  -max_shift * Tanh(x)

----------------------------------------------------------------------------
(* __init__.py: AdaptiveThermostatCoordinator._async_update_data *)

AsyncUpdateData(temp_state, price_state) ==
    [temperature |-> IF ~temp_state.exists THEN None ELSE Float(temp_state),
     price_diff_percent |->
         IF price_sensor_id /\ price_state.exists THEN Float(price_state)
         ELSE None]

\* what _async_update_data can return now, over the states the temperature
\* sensor can be in
DataValues == {AsyncUpdateData(ts, price_sensor_state) : ts \in TempStates}

----------------------------------------------------------------------------
(* climate.py: the entity's configuration and its pure parts *)

tolerance == DEFAULT_TOLERANCE
base_shift == DEFAULT_BASE_SHIFT
high_setpoint == DEFAULT_HIGH_SETPOINT
low_setpoint == DEFAULT_LOW_SETPOINT
max_price_shift == DEFAULT_MAX_PRICE_SHIFT
price_steepness == DEFAULT_PRICE_STEEPNESS

\* a variant that reads an absent temperature as 0.0
CurrentTemperatureOrZero(d) ==
    IF d = None \/ d.temperature = None THEN Some(0) ELSE d.temperature

\* the property current_temperature, of coordinator data d
CurrentTemperature(d) == IF d = None THEN None ELSE d.temperature

\* a variant that returns the price shift without the base shift
TotalShiftWithoutBase(base, configured, d, max_shift, steepness) ==
    IF configured /\ d # None /\ d.price_diff_percent # None
    THEN RoundDiv(price_based_shift_percent(d.price_diff_percent[1],
                                            max_shift, steepness), TanhScale)
    ELSE base

\* _calculate_total_shift (lines 197-211) for an entity with the given base
\* shift, price sensor (configured or not), maximal price shift and
\* steepness, of coordinator data d; in hundredths of a degree
TotalShift(base, configured, d, max_shift, steepness) ==
    IF configured /\ d # None /\ d.price_diff_percent # None
    THEN base + RoundDiv(price_based_shift_percent(d.price_diff_percent[1],
                                                   max_shift, steepness), TanhScale)
    ELSE base

\* _calculate_total_shift, of coordinator data d
CalculateTotalShift(d) ==
    TotalShift(base_shift, price_sensor_id, d, max_price_shift, price_steepness)

\* a variant that compares the reading with thresholds that leave out the shift
ShouldHeatUnshifted(current_temp, target, total_shift, heating) ==
    IF current_temp < target - tolerance THEN TRUE
    ELSE IF current_temp > target + tolerance THEN FALSE
    ELSE heating

\* a variant whose dead-band excludes its boundaries
ShouldHeatOpenBand(current_temp, target, total_shift, heating) ==
    IF current_temp <= target - tolerance + total_shift THEN TRUE
    ELSE IF current_temp >= target + tolerance + total_shift THEN FALSE
    ELSE heating

\* a variant that keeps the state it finds, whatever the reading
ShouldHeatKeepsState(current_temp, target, total_shift, heating) == heating

\* the hysteresis decision of _async_control_heating (lines 173-181)
ShouldHeat(current_temp, target, total_shift, heating) ==
    IF current_temp < target - tolerance + total_shift THEN TRUE
    ELSE IF current_temp > target + tolerance + total_shift THEN FALSE
    ELSE heating

\* a variant that turns the device off with a setpoint of 0
SetpointZeroWhenOff(should_heat) == IF should_heat THEN high_setpoint ELSE 0

\* the setpoint commanded for a decision (line 186)
Setpoint(should_heat) == IF should_heat THEN high_setpoint ELSE low_setpoint

\* a variant that acts on every decision (level-triggered)
StateDiffersAlways(should_heat, heating) == TRUE

\* whether _async_control_heating acts on its decision (line 184)
StateDiffers(should_heat, heating) == should_heat # heating

\* a variant that has not yet assigned _is_heating when it awaits the call
HeatingAtCallNotAssigned(should_heat, heating) == heating

\* _is_heating as line 185 leaves it before the actuator call is awaited
HeatingAtCall(should_heat, heating) == should_heat

\* _async_control_heating up to its await: the new _is_heating and the
\* setpoint of the actuator call it makes, if any
ControlHeating(mode, d, target, heating) ==
    IF mode = OFF THEN [is_heating |-> heating, call |-> None]
    ELSE IF CurrentTemperature(d) = None THEN [is_heating |-> heating, call |-> None]
    ELSE LET should_heat == ShouldHeat(CurrentTemperature(d)[1], target,
                                       CalculateTotalShift(d), heating)
         IN  IF StateDiffers(should_heat, heating)
             THEN [is_heating |-> HeatingAtCall(should_heat, heating),
                   call |-> Some(Setpoint(should_heat))]
             ELSE [is_heating |-> heating, call |-> None]

\* a variant that takes back the evaluation's _is_heating when its call fails
HeatingAfterCallRolledBack(by, ok, heating) ==
    IF by = "set_hvac_mode_off" THEN FALSE
    ELSE IF ~ok THEN ~heating ELSE heating

\* a variant in which async_set_hvac_mode does not clear _is_heating
HeatingAfterCallNotCleared(by, ok, heating) == heating

\* _is_heating after an awaited actuator call of coroutine `by` has settled
\* (async_set_hvac_mode line 143; _async_set_real_thermostat swallows a failure)
HeatingAfterCall(by, ok, heating) ==
    IF by = "set_hvac_mode_off" THEN FALSE ELSE heating

----------------------------------------------------------------------------
(* History of the last step: which coroutine ran (op), whether it ran      *)
(* _async_control_heating, the _is_heating it found, the actuator call it  *)
(* made; for a settled call its coroutine (by), its setpoint (settled) and *)
(* its outcome (ok); for an evaluation, the setpoint of the evaluation's   *)
(* call that failed in the step before it (after_failed); for set-mode     *)
(* HEAT, whether the mode it replaced was OFF (was_off).                   *)

\* what triggers a refresh of the coordinator: its timer, a price change
Triggers == {"timer", "price"}
TaskOps == {"timer_task", "price_task"}
TaskOp(trigger) == IF trigger = "timer" THEN "timer_task" ELSE "price_task"

EvalOps == TaskOps \cup {"set_temperature", "set_hvac_mode_heat"}

\* a step that neither evaluates, nor calls the actuator, nor resumes a call
Quiet == [op |-> "", evaluated |-> FALSE, found |-> FALSE, call |-> None,
          by |-> "", settled |-> None, ok |-> TRUE, after_failed |-> None,
          was_off |-> FALSE]

\* a step that ran _async_control_heating, with result r
Evaluated(op, r) ==
    [Quiet EXCEPT !.op = op, !.evaluated = TRUE, !.found = is_heating,
                  !.call = r.call,
                  !.was_off = (op = "set_hvac_mode_heat" /\ hvac_mode = OFF),
                  !.after_failed = IF step.op = "settle" /\ ~step.ok
                                      /\ step.by \in EvalOps
                                   THEN step.settled ELSE None]

\* an awaited actuator call: the coroutine awaiting it, the setpoint, and
\* (history) whether mode, target and readings are still those it was made with
CallRecord(by, setpoint) ==
    [by |-> by, temperature |-> setpoint, same_inputs |-> TRUE]

\* the awaited calls, once mode, target or readings have changed to (m, t, d)
Aged(calls, m, t, d) ==
    IF m = hvac_mode /\ t = target_temperature /\ d = data THEN calls
    ELSE LET old(c) == [c EXCEPT !.same_inputs = FALSE]
             olds == {old(c) : c \in BagToSet(calls)}
             count(o) == (IF BagIn(o, calls) THEN CopiesIn(o, calls) ELSE 0)
                         + (IF BagIn([o EXCEPT !.same_inputs = TRUE], calls)
                            THEN CopiesIn([o EXCEPT !.same_inputs = TRUE], calls)
                            ELSE 0)
         IN  [o \in olds |-> count(o)]

Coroutines ==
    pending_tasks["timer"] + pending_tasks["price"] + BagCardinality(service_calls)

\* commands by evaluations since _is_heating last changed its value
CountCommands(r) ==
    (IF r.is_heating # is_heating THEN 0 ELSE cmds_since_change)
    + (IF r.call # None THEN 1 ELSE 0)

----------------------------------------------------------------------------
(* The coordinator and the entity of one config entry *)

\* the data of the entry that async_setup_entry sets up: the schema's defaults
\* (config_flow.py lines 71-74) for existing entities
EntryData ==
    [real_thermostat |-> TRUE, temp_sensor |-> TRUE,
     price_sensor |-> IF price_sensor_id THEN "found" ELSE "",
     tolerance |-> DEFAULT_TOLERANCE, high_setpoint |-> DEFAULT_HIGH_SETPOINT,
     low_setpoint |-> DEFAULT_LOW_SETPOINT]

\* the coordinator as constructed (__init__.py lines 73-85) and the fields the
\* entity is constructed with (climate.py lines 72-75)
RuntimeInit ==
    /\ hvac_mode = HEAT
    /\ target_temperature = DefaultTarget
    /\ is_heating = FALSE
    /\ price_sensor_id \in BOOLEAN
    /\ price_sensor_state \in (IF price_sensor_id THEN PriceStates ELSE {NoState})
    /\ data = None
    /\ price_listener_unsubscribe = FALSE
    /\ entity_added = FALSE
    /\ setup = "created"
    /\ unload = "no"
    /\ refresh_requested = FALSE
    /\ pending_tasks = [trigger \in Triggers |-> 0]
    /\ service_calls = EmptyBag
    /\ cmds_since_change = 0
    /\ ever_evaluated = FALSE
    /\ step = Quiet

Init ==
    /\ RuntimeInit
    /\ config_entry = Some(EntryData)
    /\ basic_config = None
    /\ errors = {}
    /\ shift_in = None
    /\ shift_out = None

\* async_setup_entry line 32: the first refresh, while the coordinator has no
\* listener
AsyncConfigEntryFirstRefresh ==
    /\ setup = "created"
    /\ setup' = "refreshed"
    /\ data' \in DataValues
    /\ step' = Quiet
    /\ UNCHANGED <<hvac_mode, target_temperature, is_heating, price_sensor_id,
                   price_sensor_state, flow_vars, shift_vars,
                   price_listener_unsubscribe, entity_added, unload,
                   refresh_requested, pending_tasks, service_calls,
                   cmds_since_change, ever_evaluated>>

\* async_start (lines 87-101): subscribes to the price sensor if one is configured
AsyncStart ==
    /\ setup = "refreshed"
    /\ setup' = "started"
    /\ price_listener_unsubscribe' = price_sensor_id
    /\ step' = Quiet
    /\ UNCHANGED <<hvac_mode, target_temperature, is_heating, data, price_sensor_id,
                   price_sensor_state, flow_vars, shift_vars,
                   entity_added, unload, refresh_requested, pending_tasks,
                   service_calls, cmds_since_change, ever_evaluated>>

\* async_forward_entry_setups (line 43) and the platform's async_setup_entry:
\* the entity is constructed and added with update_before_add, which
\* refreshes the coordinator before the entity listens to it; then the entity
\* becomes a listener, which schedules the update_interval timer
AsyncAddEntities ==
    /\ setup = "started"
    /\ setup' = "done"
    /\ data' \in DataValues
    /\ entity_added' = TRUE
    /\ step' = Quiet
    /\ UNCHANGED <<hvac_mode, target_temperature, is_heating, price_sensor_id,
                   price_sensor_state, flow_vars, shift_vars,
                   price_listener_unsubscribe, unload, refresh_requested,
                   pending_tasks, service_calls, cmds_since_change, ever_evaluated>>

\* _async_control_heating run to its await with mode m and target t, as step
\* op of a coroutine that is new (a command) or was counted (a task)
RunControlHeating(op, m, t, new) ==
    LET r == ControlHeating(m, data, t, is_heating)
        calls == Aged(service_calls, m, t, data)
    IN  /\ is_heating' = r.is_heating
        /\ cmds_since_change' = CountCommands(r)
        /\ ever_evaluated' = TRUE
        /\ step' = Evaluated(op, r)
        /\ IF r.call = None
           THEN service_calls' = calls
           ELSE /\ new => Coroutines < MaxCoroutines
                /\ service_calls' = calls (+) SetToBag({CallRecord(op, r.call[1])})

\* DataUpdateCoordinator refresh: _async_update_data, then every listener's
\* _handle_coordinator_update, which creates the evaluation task (line 153)
Refresh(trigger) ==
    /\ \E d \in DataValues :
          /\ data' = d
          /\ service_calls' = Aged(service_calls, hvac_mode, target_temperature, d)
    /\ IF entity_added
       THEN /\ Coroutines < MaxCoroutines
            /\ pending_tasks' = [pending_tasks EXCEPT ![trigger] = @ + 1]
       ELSE pending_tasks' = pending_tasks
    /\ step' = Quiet
    /\ UNCHANGED <<hvac_mode, target_temperature, is_heating, price_sensor_id,
                   price_sensor_state, flow_vars, shift_vars,
                   price_listener_unsubscribe, entity_added, setup, unload,
                   cmds_since_change, ever_evaluated>>

\* the update_interval timer, scheduled while the coordinator has a listener
HandleRefreshInterval ==
    /\ entity_added
    /\ Refresh("timer")
    /\ UNCHANGED refresh_requested

\* a variant of price_changed that requests no refresh
RefreshNotRequested(subscribed, requested) == requested

\* whether an async_request_refresh task is pending after a change of the
\* price sensor's state: price_changed (lines 92-97), if subscribed, creates
\* one; requests made before it runs are merged
RefreshRequestedAfterChange(subscribed, requested) == subscribed \/ requested

\* the state of the configured price sensor changes, and the state change
\* event reaches price_changed if it is subscribed
PriceChanged ==
    /\ price_sensor_id
    /\ price_sensor_state' \in PriceStates \ {price_sensor_state}
    /\ refresh_requested' =
           RefreshRequestedAfterChange(price_listener_unsubscribe, refresh_requested)
    /\ step' = Quiet
    /\ UNCHANGED <<hvac_mode, target_temperature, is_heating, data, price_sensor_id,
                   price_listener_unsubscribe, entity_added, setup, unload,
                   pending_tasks, service_calls, cmds_since_change, ever_evaluated,
                   flow_vars, shift_vars>>

\* the async_request_refresh task runs
AsyncRequestRefresh ==
    /\ refresh_requested
    /\ refresh_requested' = FALSE
    /\ Refresh("price")

\* a task created by _handle_coordinator_update runs _async_control_heating.
\* async_create_task schedules the coroutine and the loop starts it in a later
\* step; a host that starts tasks eagerly takes this step right after the
\* refresh, which is one of the interleavings here.
ControlHeatingTask ==
    /\ \E trigger \in Triggers :
          /\ pending_tasks[trigger] > 0
          /\ pending_tasks' = [pending_tasks EXCEPT ![trigger] = @ - 1]
          /\ RunControlHeating(TaskOp(trigger), hvac_mode, target_temperature, FALSE)
    /\ data' = data
    /\ UNCHANGED <<hvac_mode, target_temperature, price_sensor_id,
                   price_sensor_state, flow_vars, shift_vars,
                   price_listener_unsubscribe, entity_added, setup, unload,
                   refresh_requested>>

\* async_set_temperature (lines 124-131), up to the await of the actuator call
AsyncSetTemperature ==
    /\ entity_added
    /\ \E temperature \in {None} \cup {Some(t) : t \in Targets} :
          IF temperature = None
          THEN /\ step' = Quiet
               /\ UNCHANGED <<target_temperature, is_heating, service_calls,
                              cmds_since_change, ever_evaluated>>
          ELSE /\ target_temperature' = temperature[1]
               /\ RunControlHeating("set_temperature", hvac_mode, temperature[1], TRUE)
    /\ data' = data
    /\ UNCHANGED <<hvac_mode, price_sensor_id,
                   price_sensor_state, flow_vars, shift_vars,
                   price_listener_unsubscribe,
                   entity_added, setup, unload, refresh_requested, pending_tasks>>

\* async_set_hvac_mode (lines 133-148), up to the await of the actuator call
AsyncSetHvacMode ==
    /\ entity_added
    /\ \E mode \in {OFF, HEAT, COOL} :
          IF mode \notin attr_hvac_modes
          THEN /\ step' = Quiet
               /\ UNCHANGED <<hvac_mode, is_heating, service_calls, cmds_since_change,
                              ever_evaluated>>
          ELSE IF mode = OFF
          THEN /\ hvac_mode' = OFF
               /\ Coroutines < MaxCoroutines
               /\ service_calls' =
                      Aged(service_calls, OFF, target_temperature, data)
                      (+) SetToBag({CallRecord("set_hvac_mode_off", low_setpoint)})
               /\ step' = [Quiet EXCEPT !.op = "set_hvac_mode_off", !.found = is_heating,
                                           !.call = Some(low_setpoint)]
               /\ UNCHANGED <<is_heating, cmds_since_change, ever_evaluated>>
          ELSE /\ hvac_mode' = mode
               /\ RunControlHeating("set_hvac_mode_heat", mode, target_temperature, TRUE)
    /\ data' = data
    /\ UNCHANGED <<target_temperature, price_sensor_id,
                   price_sensor_state, flow_vars, shift_vars,
                   price_listener_unsubscribe,
                   entity_added, setup, unload, refresh_requested, pending_tasks>>

\* an awaited actuator call settles, with success or with an exception that
\* _async_set_real_thermostat catches (lines 215-235); its coroutine resumes
Settles(outcomes) ==
    \E c \in BagToSet(service_calls), ok \in outcomes :
        LET h == HeatingAfterCall(c.by, ok, is_heating)
        IN  /\ service_calls' = service_calls (-) SetToBag({c})
            /\ is_heating' = h
            /\ cmds_since_change' = IF h # is_heating THEN 0 ELSE cmds_since_change
            /\ step' = [Quiet EXCEPT !.op = "settle", !.found = is_heating,
                                      !.by = c.by, !.ok = ok,
                                      !.settled = Some(c.temperature)]
            /\ UNCHANGED <<hvac_mode, target_temperature, data, price_sensor_id,
                           price_sensor_state, flow_vars, shift_vars,
                           price_listener_unsubscribe, entity_added, setup, unload,
                           refresh_requested, pending_tasks, ever_evaluated>>

ServiceCallSettles == Settles(BOOLEAN)

\* the same step when the real thermostat accepts every command: the service
\* call returns without an exception (line 217), the device has the setpoint
ServiceCallSucceeds == Settles({TRUE})

\* a variant of async_stop that keeps the price subscription
PriceListenerKept(subscribed) == subscribed

\* whether the price subscription exists after async_stop (lines 105-107)
PriceListenerAfterStop(subscribed) == FALSE

\* async_unload_entry up to its await: coordinator.async_stop (lines 103-107)
AsyncStop ==
    /\ setup = "done"
    /\ unload = "no"
    /\ unload' = "stopped"
    /\ price_listener_unsubscribe' = PriceListenerAfterStop(price_listener_unsubscribe)
    /\ step' = Quiet
    /\ UNCHANGED <<hvac_mode, target_temperature, is_heating, data, price_sensor_id,
                   price_sensor_state, flow_vars, shift_vars,
                   entity_added, setup, refresh_requested, pending_tasks,
                   service_calls, cmds_since_change, ever_evaluated>>

\* async_unload_platforms (line 57): the entity is removed, stops listening
\* to the coordinator, and the coordinator's timer ends with its last listener
AsyncUnloadPlatforms ==
    /\ unload = "stopped"
    /\ unload' = "unloaded"
    /\ entity_added' = FALSE
    /\ step' = Quiet
    /\ UNCHANGED <<hvac_mode, target_temperature, is_heating, data, price_sensor_id,
                   price_sensor_state, flow_vars, shift_vars,
                   price_listener_unsubscribe, setup, refresh_requested,
                   pending_tasks, service_calls, cmds_since_change, ever_evaluated>>

Next ==
    \/ AsyncConfigEntryFirstRefresh
    \/ AsyncStart
    \/ AsyncAddEntities
    \/ HandleRefreshInterval
    \/ PriceChanged
    \/ AsyncRequestRefresh
    \/ ControlHeatingTask
    \/ AsyncSetTemperature
    \/ AsyncSetHvacMode
    \/ ServiceCallSettles
    \/ AsyncStop
    \/ AsyncUnloadPlatforms

Spec == Init /\ [][Next]_vars

\* the integration with a real thermostat that never fails a command
ReliableNext ==
    \/ AsyncConfigEntryFirstRefresh
    \/ AsyncStart
    \/ AsyncAddEntities
    \/ HandleRefreshInterval
    \/ PriceChanged
    \/ AsyncRequestRefresh
    \/ ControlHeatingTask
    \/ AsyncSetTemperature
    \/ AsyncSetHvacMode
    \/ ServiceCallSucceeds
    \/ AsyncStop
    \/ AsyncUnloadPlatforms

ReliableSpec == Init /\ [][ReliableNext]_vars

\* the integration while its config entry stays loaded
LoadedNext ==
    \/ AsyncConfigEntryFirstRefresh
    \/ AsyncStart
    \/ AsyncAddEntities
    \/ HandleRefreshInterval
    \/ PriceChanged
    \/ AsyncRequestRefresh
    \/ ControlHeatingTask
    \/ AsyncSetTemperature
    \/ AsyncSetHvacMode
    \/ ServiceCallSettles

\* the scheduling the loaded integration runs in: the coordinator re-arms
\* its update_interval timer after every refresh (__init__.py lines 80-85),
\* the event loop starts every task that _handle_coordinator_update created
\* (climate.py line 154), and an awaited service call returns
FairSpec ==
    /\ Init /\ [][LoadedNext]_vars
    /\ WF_vars(HandleRefreshInterval)
    /\ WF_vars(ControlHeatingTask)
    /\ WF_vars(ServiceCallSettles)

----------------------------------------------------------------------------
(* config_flow.py: the config flow that creates the entry and the options  *)
(* flow that edits it.  A user input names its entities by whether they    *)
(* exist in hass.states; price_sensor is "" when none is given.            *)

\* cv.positive_float accepts 0
SetpointInputs == {0, 500, 2000, 3500}
ToleranceInputs == {50, 100}

\* the inputs of the form of step user
UserInputs ==
    [real_thermostat : BOOLEAN, temp_sensor : BOOLEAN,
     price_sensor : {"", "missing", "found"}, tolerance : ToleranceInputs,
     high_setpoint : SetpointInputs, low_setpoint : SetpointInputs]

\* the inputs of the form of the options flow
OptionsInputs ==
    [tolerance : ToleranceInputs,
     high_setpoint : SetpointInputs, low_setpoint : SetpointInputs]

\* _validate_entities (lines 117-138): the errors, by field
ValidateEntities(user_input) ==
    (IF ~user_input.real_thermostat
     THEN {<<"real_thermostat", "entity_not_found">>} ELSE {})
    \cup (IF ~user_input.temp_sensor
          THEN {<<"temp_sensor", "entity_not_found">>} ELSE {})
    \cup (IF user_input.price_sensor = "missing"
          THEN {<<"price_sensor", "entity_not_found">>} ELSE {})
    \cup (IF user_input.high_setpoint <= user_input.low_setpoint
          THEN {<<"high_setpoint", "high_must_exceed_low">>} ELSE {})

\* {**self.config_entry.data, **user_input} (line 160)
MergedData(entry_data, user_input) ==
    [entry_data EXCEPT !.tolerance = user_input.tolerance,
                       !.high_setpoint = user_input.high_setpoint,
                       !.low_setpoint = user_input.low_setpoint]

\* no entry exists and the form of step user is to be shown first
FlowInit ==
    /\ RuntimeInit
    /\ config_entry = None
    /\ basic_config = None
    /\ errors = {}
    /\ shift_in = None
    /\ shift_out = None

\* async_step_user (lines 38-81) with a submitted form
AsyncStepUser ==
    /\ config_entry = None
    /\ basic_config = None
    /\ \E user_input \in UserInputs :
          /\ errors' = ValidateEntities(user_input)
          /\ IF errors' # {}
             THEN UNCHANGED <<config_entry, basic_config>>
             ELSE IF user_input.price_sensor # ""
             THEN basic_config' = Some(user_input) /\ UNCHANGED config_entry
             ELSE config_entry' = Some(user_input) /\ UNCHANGED basic_config
    /\ UNCHANGED <<runtime_vars, shift_vars>>

\* async_step_advanced (lines 83-93) with a submitted form
AsyncStepAdvanced ==
    /\ config_entry = None
    /\ basic_config # None
    /\ config_entry' = basic_config
    /\ UNCHANGED <<basic_config, errors, runtime_vars, shift_vars>>

\* AdaptiveThermostatOptionsFlow.async_step_init (lines 154-162) with a
\* submitted form
OptionsStepInit ==
    /\ config_entry # None
    /\ \E user_input \in OptionsInputs :
          config_entry' = Some(MergedData(config_entry[1], user_input))
    /\ UNCHANGED <<basic_config, errors, runtime_vars, shift_vars>>

FlowNext ==
    \/ AsyncStepUser
    \/ AsyncStepAdvanced
    \/ OptionsStepInit

FlowSpec == FlowInit /\ [][FlowNext]_vars

----------------------------------------------------------------------------
(* The shift functions applied to arguments of their own: percentages,     *)
(* maximal shifts in hundredths of a degree, steepnesses in tenths, base   *)
(* shifts in hundredths of a degree.                                       *)

\* with steepness 1.5 math.tanh is exactly 1.0 from 1271 % on, with 10.0 from 191 %
PriceDiffs == {-2000, -100, -49, 0, 49, 100, 2000}
MaxShifts == {100, 300}
Steepnesses == {0, 15, 100}
BaseShifts == {-100, 0, 50}

\* coordinator data with a price reading or without one
PriceData == {[temperature |-> None, price_diff_percent |-> price] :
                 price \in {None} \cup {Some(p) : p \in PriceDiffs}}

ShiftInit ==
    /\ RuntimeInit
    /\ config_entry = None
    /\ basic_config = None
    /\ errors = {}
    /\ shift_in = None
    /\ shift_out = None

\* price_based_shift_percent is called
ApplyPriceBasedShift ==
    /\ \E p \in PriceDiffs, m \in MaxShifts, s \in Steepnesses :
          /\ shift_in' = Some([f |-> "price_based_shift_percent", base |-> 0,
                               configured |-> TRUE,
                               data |-> [temperature |-> None,
                                         price_diff_percent |-> Some(p)],
                               max_shift |-> m, steepness |-> s])
          /\ shift_out' = Some(price_based_shift_percent(p, m, s))
    /\ UNCHANGED <<runtime_vars, flow_vars>>

\* _calculate_total_shift is called
ApplyCalculateTotalShift ==
    /\ \E base \in BaseShifts, configured \in BOOLEAN,
          d \in {None} \cup PriceData, m \in MaxShifts, s \in Steepnesses :
          /\ shift_in' = Some([f |-> "_calculate_total_shift", base |-> base,
                               configured |-> configured, data |-> d,
                               max_shift |-> m, steepness |-> s])
          /\ shift_out' = Some(TotalShift(base, configured, d, m, s))
    /\ UNCHANGED <<runtime_vars, flow_vars>>

ShiftNext ==
    \/ ApplyPriceBasedShift
    \/ ApplyCalculateTotalShift

ShiftSpec == ShiftInit /\ [][ShiftNext]_vars

----------------------------------------------------------------------------
(* Properties *)

\* the awaited actuator calls made by coroutines in `ops`
CallsBy(ops) == {c \in BagToSet(service_calls) : c.by \in ops}
NumCallsBy(ops) == BagCardinality([c \in CallsBy(ops) |-> CopiesIn(c, service_calls)])

\* the dead-band of the evaluation that just ran, from the state it read
Lower == target_temperature - tolerance + CalculateTotalShift(data)
Upper == target_temperature + tolerance + CalculateTotalShift(data)
\* the last step ran the hysteresis decision on a present reading, in mode HEAT
Decided == step.evaluated /\ hvac_mode = HEAT /\ data.temperature # None
Reading == data.temperature[1]

\* C1: at most one hysteresis evaluation is in flight at any time, whatever
\* triggered it (timer refresh, price change, set-target or set-mode command).
AtMostOneEvaluationInFlight == NumCallsBy(EvalOps) <= 1

\* C2: for any one change of is_heating at most one actuator command is issued
\* by the evaluations, also when a second evaluation runs on the same reading
\* and target while the first is suspended in its actuator call.
OneCommandPerChange == cmds_since_change <= 1

\* C2 witness: a timer-triggered evaluation awaits its call; readings, target
\* and mode are those it saw; and a price-triggered evaluation has just
\* decided without a call.
OverlappingEvaluationCoalesced ==
    /\ Decided
    /\ step.op = "price_task"
    /\ step.call = None
    /\ \E c \in CallsBy({"timer_task"}) :
           c.same_inputs /\ c.temperature = Setpoint(is_heating)

\* C3: once the config entry is unloaded no step issues an actuator command.
NoCommandAfterTeardown == unload = "unloaded" => step.call = None

\* C4: an evaluation calls the actuator exactly when it changes is_heating,
\* with high_setpoint when heating turns on and low_setpoint when it turns off.
EdgeTriggeredActuation ==
    step.evaluated =>
        /\ (step.call # None) <=> (is_heating # step.found)
        /\ step.call # None =>
               step.call = Some(IF is_heating THEN high_setpoint ELSE low_setpoint)

\* C4 witness: an evaluation has turned heating on and commanded high_setpoint.
HeatingTurnedOnWithHighSetpoint ==
    /\ Decided
    /\ ~step.found /\ is_heating
    /\ step.call = Some(high_setpoint)

\* C5: after an evaluation in mode HEAT of a present reading, a reading below
\* target - tolerance + total shift leaves is_heating true and one above
\* target + tolerance + total shift leaves it false, whatever it was before.
OutsideDeadBandDecides ==
    Decided =>
        /\ Reading < Lower => is_heating
        /\ Reading > Upper => ~is_heating

\* C5 witness: a reading above the shifted upper threshold, which the
\* unshifted dead-band contains, has turned heating off.
AboveShiftedBandTurnsOff ==
    /\ Decided
    /\ CalculateTotalShift(data) # 0
    /\ Reading > Upper
    /\ Reading <= target_temperature + tolerance
    /\ step.found /\ ~is_heating

\* C6: an evaluation in mode HEAT of a reading in the dead-band, boundaries
\* included, keeps is_heating and issues no actuator command.
DeadBandStability ==
    Decided /\ Lower <= Reading /\ Reading <= Upper =>
        is_heating = step.found /\ step.call = None

\* C6 witness: on the lower boundary of the dead-band an idle controller stays idle.
IdleKeptOnLowerBoundary ==
    /\ Decided
    /\ Reading = Lower
    /\ ~step.found /\ ~is_heating

\* C7: an evaluation that finds no temperature reading leaves is_heating as it
\* was and issues no actuator command.
AbsentReadingNoDecision ==
    step.evaluated /\ data.temperature = None =>
        is_heating = step.found /\ step.call = None

\* C7 witness: a heating controller in mode HEAT evaluated without a reading.
HeatingKeptWithoutReading ==
    /\ step.evaluated
    /\ hvac_mode = HEAT
    /\ data.temperature = None
    /\ step.found /\ is_heating

\* C8: a failed actuator call of an evaluation leaves is_heating as the
\* evaluation set it, and the evaluation after the failure issues no command
\* when its decision equals is_heating.
ActuatorFailureContained ==
    /\ step.op = "settle" /\ ~step.ok /\ step.by \in EvalOps =>
           is_heating = step.found
    /\ step.evaluated /\ step.after_failed # None /\ is_heating = step.found =>
           step.call = None

\* C8 witness: the high_setpoint call failed, and the next evaluation, of a
\* reading below the dead-band, keeps is_heating true and does not call again.
FailedCommandNotRetried ==
    /\ Decided
    /\ step.after_failed = Some(high_setpoint)
    /\ Reading < Lower
    /\ is_heating
    /\ step.call = None

\* C9: set-mode OFF always commands low_setpoint, whatever the reading, and
\* is_heating is false when the command completes.
OffForcesLowSetpoint ==
    /\ step.op = "set_hvac_mode_off" =>
           hvac_mode = OFF /\ step.call = Some(low_setpoint)
    /\ step.op = "settle" /\ step.by = "set_hvac_mode_off" => ~is_heating

\* C9 witness: set-mode OFF has completed and cleared is_heating while the
\* reading is absent.
OffCompletedWithoutReading ==
    /\ step.op = "settle" /\ step.by = "set_hvac_mode_off"
    /\ step.settled = Some(low_setpoint)
    /\ data.temperature = None
    /\ step.found /\ ~is_heating

\* C10: in every reachable state with mode OFF, is_heating is false.
OffImpliesNotHeating == hvac_mode = OFF => ~is_heating

\* the commands that run the evaluation themselves
CommandOps == {"set_temperature", "set_hvac_mode_heat"}

\* C11: a set-target or set-mode-HEAT command evaluates before it completes:
\* when it returns, at once if its evaluation made no actuator call and
\* otherwise when that call has settled, is_heating is the decision the
\* command's evaluation made for the new target or mode.
CommandReturnsWithItsDecision ==
    /\ step.op \in CommandOps /\ step.call = None /\ Decided =>
           /\ Reading < Lower => is_heating
           /\ Reading > Upper => ~is_heating
    /\ step.op = "settle" /\ step.by \in CommandOps =>
           is_heating = (step.settled = Some(high_setpoint))

\* C12: setting up the config entry (first refresh, start of the price
\* listener, creation of the entity) runs an evaluation before the first tick
\* of the periodic timer: whenever the timer ticks, an evaluation has run.
EvaluationBeforeFirstTimerTick == [][HandleRefreshInterval => ever_evaluated]_vars

\* C13: once the config entry is unloaded the timer has no listener left and
\* the price subscription is gone, and no step creates an evaluation task any
\* more; the steps of the unload leave the awaited actuator calls and the
\* created tasks as they are, so an evaluation in flight runs on.
StopEndsTriggers ==
    /\ [](unload = "unloaded" => ~entity_added /\ ~price_listener_unsubscribe)
    /\ [][unload = "unloaded" =>
              \A trigger \in Triggers : pending_tasks'[trigger] <= pending_tasks[trigger]]_vars
    /\ [][unload' # unload =>
              /\ service_calls' = service_calls
              /\ pending_tasks' = pending_tasks
              /\ is_heating' = is_heating]_vars

\* C13 witness: after the unload the actuator call of an evaluation that was
\* in flight has settled.
EvaluationCompletedAfterStop ==
    /\ unload = "unloaded"
    /\ step.op = "settle"
    /\ step.by \in EvalOps
    /\ step.ok

\* the scheduler is started: the config entry is set up and not being unloaded
Started == setup = "done" /\ unload = "no"
\* the reading the price sensor's state gives now
PriceReading ==
    IF price_sensor_state.exists /\ price_sensor_state.numeric
    THEN Some(price_sensor_state.value) ELSE None

\* C14: while the scheduler is started with a price sensor configured, every
\* change of the sensor's state at once leaves a refresh request pending; the
\* requested refresh, which no timer tick has to precede, reads the new price
\* and creates an evaluation task, so that with no request pending the data
\* hold the sensor's present reading.  Without a price sensor there is no
\* subscription, no refresh request and no price-triggered evaluation.
PriceChangeRequestsRefresh ==
    /\ [](Started => price_listener_unsubscribe = price_sensor_id)
    /\ [][Started /\ price_sensor_state' # price_sensor_state => refresh_requested']_vars
    /\ [][Started /\ refresh_requested /\ ~refresh_requested' =>
              /\ data'.price_diff_percent = PriceReading
              /\ pending_tasks'["price"] = pending_tasks["price"] + 1]_vars
    /\ [](Started /\ price_sensor_id /\ ~refresh_requested =>
              data.price_diff_percent = PriceReading)
    /\ [](~price_sensor_id =>
              /\ ~price_listener_unsubscribe
              /\ ~refresh_requested
              /\ pending_tasks["price"] = 0
              /\ step.op # "price_task")

\* C14 witness: the evaluation task of a refresh requested by a price change
\* has run with the sensor's present price, whose shift moved the dead-band
\* below the reading and turned heating off.
PriceTaskEvaluatedNewPrice ==
    /\ Decided
    /\ Started
    /\ step.op = "price_task"
    /\ ~refresh_requested
    /\ data.price_diff_percent = PriceReading
    /\ PriceReading # None
    /\ Reading > Upper /\ Reading <= target_temperature + tolerance
    /\ step.found /\ ~is_heating

\* C15: set-mode HEAT, issued in mode OFF, leaves is_heating as a fresh
\* controller (is_heating false) decides it on the same reading, target and
\* shift: true exactly for a present reading below the lower threshold,
\* whatever is_heating was before the OFF.
OffCycleForgets ==
    step.op = "set_hvac_mode_heat" /\ step.was_off =>
        is_heating = (data.temperature # None /\ Reading < Lower)

\* C16: a config entry's data always have high_setpoint > low_setpoint,
\* whether the setup flow created them or an options edit replaced them.
HighExceedsLow ==
    config_entry # None =>
        config_entry[1].high_setpoint > config_entry[1].low_setpoint

\* C17: the target temperature is within [attr_min_temp, attr_max_temp] in
\* every reachable state: a set-target command with a value outside is
\* clamped or rejected, never stored.
TargetWithinRange ==
    attr_min_temp <= target_temperature /\ target_temperature <= attr_max_temp

\* C18: every command sent to the actuator, by an evaluation or by set-mode
\* OFF, carries exactly high_setpoint or low_setpoint: the call a step makes,
\* the calls awaited and the call that settles.
CommandsCarryConfiguredSetpoint ==
    /\ step.call \in {None, Some(high_setpoint), Some(low_setpoint)}
    /\ step.settled \in {None, Some(high_setpoint), Some(low_setpoint)}
    /\ \A c \in BagToSet(service_calls) : c.temperature \in {high_setpoint, low_setpoint}

\* C18 witness: an evaluation's command with high_setpoint and the command
\* of set-mode OFF with low_setpoint are both awaited.
BothSetpointsCommanded ==
    /\ \E c \in CallsBy(EvalOps) : c.temperature = high_setpoint
    /\ \E c \in CallsBy({"set_hvac_mode_off"}) : c.temperature = low_setpoint

\* the last application of function f
Applied(f) == shift_in # None /\ shift_in[1].f = f
\* whether the arguments of the last application hold a price reading
PricePresent == shift_in[1].data # None /\ shift_in[1].data.price_diff_percent # None
PriceArgument == shift_in[1].data.price_diff_percent[1]

\* C19: the total shift is the base shift plus the price shift of the price
\* reading when a price sensor is configured and its reading is present, and
\* the base shift alone otherwise; an absent reading gives a value as well.
TotalShiftIsBasePlusPriceShift ==
    Applied("_calculate_total_shift") =>
        shift_out =
            Some(shift_in[1].base
                 + (IF shift_in[1].configured /\ PricePresent
                    THEN RoundDiv(price_based_shift_percent(PriceArgument,
                                      shift_in[1].max_shift, shift_in[1].steepness),
                                  TanhScale)
                    ELSE 0))

\* C19 witness: a base shift and a price shift, neither of them 0, were added.
BaseAndPriceShiftAdded ==
    /\ Applied("_calculate_total_shift")
    /\ shift_in[1].configured /\ PricePresent
    /\ shift_in[1].base # 0
    /\ shift_out # Some(shift_in[1].base)
    /\ shift_out # Some(0)

\* the properties of the price shift that do not depend on the interval
PriceShiftOddAndSigned ==
    /\ PriceArgument = 0 => shift_out = Some(0)
    /\ price_based_shift_percent(-PriceArgument, shift_in[1].max_shift,
                                  shift_in[1].steepness) = -shift_out[1]
    /\ PriceArgument > 0 => shift_out[1] <= 0
    /\ PriceArgument < 0 => shift_out[1] >= 0

\* C20 as stated: for max_shift m > 0 and steepness s >= 0 the price shift is
\* in the open interval (-m, m), is 0 for a percentage of 0, is odd in the
\* percentage, is not positive for a positive percentage and not negative
\* for a negative one.
PriceShiftInOpenInterval ==
    Applied("price_based_shift_percent") =>
        /\ -shift_in[1].max_shift * TanhScale < shift_out[1]
        /\ shift_out[1] < shift_in[1].max_shift * TanhScale
        /\ PriceShiftOddAndSigned

\* C20 amended: the price shift is in the closed interval [-m, m], whose ends
\* it takes where math.tanh returns exactly 1.0 or -1.0; it is 0 for a
\* percentage of 0, odd in the percentage, not positive for a positive
\* percentage and not negative for a negative one.
PriceShiftInClosedInterval ==
    Applied("price_based_shift_percent") =>
        /\ -shift_in[1].max_shift * TanhScale <= shift_out[1]
        /\ shift_out[1] <= shift_in[1].max_shift * TanhScale
        /\ PriceShiftOddAndSigned

\* C20 witness: for a large positive percentage the shift is exactly -m.
PriceShiftAtLowerEnd ==
    /\ Applied("price_based_shift_percent")
    /\ PriceArgument > 0
    /\ shift_out = Some(-shift_in[1].max_shift * TanhScale)

\* no operation is in flight: no awaited actuator call, no evaluation task
\* waiting to start, no debounced refresh waiting to run
AtRest == Coroutines = 0 /\ ~refresh_requested
\* the setpoint of the command the real thermostat received last: the one
\* whose service call has just returned
LastReceived == step.settled

\* C21: with a real thermostat that accepts every command, in every state
\* at rest that a returning actuator call leaves, the last setpoint the
\* device received is high_setpoint exactly when is_heating is true and
\* low_setpoint exactly when it is false, whatever the interleaving of
\* set-mode, set-target, timer and price evaluations was.
BeliefAndDeviceAgreeAtRest ==
    (AtRest /\ step.op = "settle" /\ step.ok) =>
        /\ LastReceived = Some(high_setpoint) <=> is_heating
        /\ LastReceived = Some(low_setpoint) <=> ~is_heating

\* the controller runs in mode HEAT on a present reading below the shifted
\* dead-band, and on one above it
NeedsHeating == Started /\ hvac_mode = HEAT /\ data.temperature # None /\ Reading < Lower
NeedsIdle == Started /\ hvac_mode = HEAT /\ data.temperature # None /\ Reading > Upper

\* C22: while the timer keeps ticking, if from some point on the controller
\* runs in mode HEAT with a present reading that stays below target -
\* tolerance + total shift, then eventually is_heating is true, and
\* is_heating only ever becomes true in a step that issues a high_setpoint
\* command; if the reading stays above target + tolerance + total shift,
\* eventually is_heating is false.
HeatingEventuallyTurnedOn ==
    /\ []<>(NeedsHeating => is_heating)
    /\ []<>(NeedsIdle => ~is_heating)
    /\ [][(~is_heating /\ is_heating') => step'.call = Some(high_setpoint)]_vars

\* C22 witness: an evaluation that a timer tick started found the reading
\* below the band with is_heating false, set it and issued high_setpoint.
TimerTickTurnedHeatingOn ==
    /\ step.op = "timer_task"
    /\ NeedsHeating
    /\ ~step.found /\ is_heating
    /\ step.call = Some(high_setpoint)

====
